---- MODULE Spec2Model ----
(***************************************************************************)
(* Dimensional analysis (unit.py): exponent vectors over the six SI base   *)
(* dimensions, constants, the basis change of a UnitSpace and the Energy   *)
(* facade.                                                                 *)
(*                                                                         *)
(* Numbers.  The exponents are floats that hold small rationals; they are  *)
(* modelled as exact rationals <<p, q>> in lowest terms with q > 0.  The   *)
(* SI values are positive floats built from the seven physical constants   *)
(* by products, quotients and powers; a value is modelled as the monomial  *)
(* of its exponents over these generators (and over "x", an arbitrary      *)
(* input), so that the product adds, the quotient subtracts and a power    *)
(* scales the exponents.  Rounding is not modelled.                        *)
(***************************************************************************)
EXTENDS Integers, Sequences, FiniteSets, TLC

VARIABLES u, v, n, c, d, ks, sp, a, b, x, en, op, res

vars == <<u, v, n, c, d, ks, sp, a, b, x, en, op, res>>

(***************************************************************************)
(* Rational arithmetic (the float arithmetic of numpy, without rounding).  *)
(***************************************************************************)
\* a local variable: e is computed once and F works on its value
Let(e, F(_)) == CHOOSE r \in {F(y) : y \in {e}} : TRUE

Abs(i) == IF i < 0 THEN -i ELSE i

\* the greatest common divisor of i >= 0 and j > 0
GCD(i, j) ==
    IF i = 0 THEN j
    ELSE CHOOSE g \in 1..j :
            /\ i % g = 0
            /\ j % g = 0
            /\ \A h \in (g + 1)..j : i % h # 0 \/ j % h # 0

Rat(p, q) ==
    LET g == GCD(Abs(p), Abs(q))
        s == IF q < 0 THEN -1 ELSE 1
    IN  <<(s * p) \div g, (s * q) \div g>>

R0 == <<0, 1>>

R1 == <<1, 1>>

RInt(i) == <<i, 1>>

RAdd(r, s) == Rat(r[1] * s[2] + s[1] * r[2], r[2] * s[2])

RNeg(r) == <<-r[1], r[2]>>

RSub(r, s) == RAdd(r, RNeg(s))

RMul(r, s) == Rat(r[1] * s[1], r[2] * s[2])

RDiv(r, s) == Rat(r[1] * s[2], r[2] * s[1])

\* int(power): truncation toward zero
Trunc(r) == IF r[1] < 0 THEN -((-r[1]) \div r[2]) ELSE r[1] \div r[2]

IsInteger(r) == r[2] = 1

(***************************************************************************)
(* Vectors and matrices (numpy arrays).                                    *)
(***************************************************************************)
Dim == 6

\* an array holds its entries (they are computed once, when it is built)
Arr(f) == f \o << >>

dic == <<"T", "L", "M", "I", "K", "N">>

zeros(k) == Arr([i \in 1..k |-> R0])

VecAdd(p, q) == Arr([i \in 1..Len(p) |-> RAdd(p[i], q[i])])

VecSub(p, q) == Arr([i \in 1..Len(p) |-> RSub(p[i], q[i])])

VecScale(p, r) == Arr([i \in 1..Len(p) |-> RMul(p[i], r)])

\* f[1] + ... + f[k]
RSum(f, k) ==
    LET acc[i \in 0..k] == IF i = 0 THEN R0 ELSE RAdd(acc[i - 1], f[i])
    IN  acc[k]

\* vec @ mat: the row vector times the matrix
VecMat(p, m) ==
    Arr([j \in 1..Len(m[1]) |->
            RSum(Arr([i \in 1..Len(p) |-> RMul(p[i], m[i][j])]), Len(p))])

eye(k) == Arr([i \in 1..k |-> Arr([j \in 1..k |-> IF i = j THEN R1 ELSE R0])])

(***************************************************************************)
(* np.linalg.inv: the inverse, by Gauss-Jordan elimination on [m | I];     *)
(* "singular" when a column has no pivot (numpy raises LinAlgError).       *)
(***************************************************************************)
Pivots(w, k) == {r \in k..Len(w) : w[r][k] # R0}

PivotRow(w, k) == CHOOSE r \in Pivots(w, k) : \A q \in Pivots(w, k) : r <= q

SwapRows(w, i, j) ==
    Arr([r \in 1..Len(w) |-> IF r = i THEN w[j] ELSE IF r = j THEN w[i] ELSE w[r]])

Eliminate(w, k) ==
    LET prow == Arr([j \in 1..Len(w[k]) |-> RDiv(w[k][j], w[k][k])])
    IN  Arr([r \in 1..Len(w) |->
            IF r = k THEN prow
            ELSE Arr([j \in 1..Len(w[r]) |-> RSub(w[r][j], RMul(w[r][k], prow[j]))])])

\* one column: the pivot search, the swap and the elimination
GaussStep(g, k) ==
    IF ~g.ok \/ Pivots(g.w, k) = {} THEN [ok |-> FALSE, w |-> g.w]
    ELSE Let(SwapRows(g.w, k, PivotRow(g.w, k)), LAMBDA sw :
             [ok |-> TRUE, w |-> Eliminate(sw, k)])

GaussJordan(w) ==
    LET col[k \in 0..Len(w)] ==
            IF k = 0 THEN [ok |-> TRUE, w |-> w]
            ELSE Let(col[k - 1], LAMBDA g : GaussStep(g, k))
    IN  col[Len(w)]

inv(m) ==
    Let(GaussJordan(Arr([i \in 1..Len(m) |-> m[i] \o eye(Len(m))[i]])), LAMBDA g :
        [ok |-> g.ok,
         m |-> Arr([i \in 1..Len(m) |-> SubSeq(g.w[i], Len(m) + 1, 2 * Len(m))])])

(***************************************************************************)
(* Python objects.  Every object is a record with its class in cls; an     *)
(* operation that raises returns the exception in place of its result.     *)
(***************************************************************************)
None == [cls |-> "NoneType"]

Raise(t) == [cls |-> "Exception", type |-> t]

IsExc(o) == o.cls = "Exception"

\* a float: the monomial of its exponents over the generators
Gens == <<"c", "hbar", "e", "kB", "nA", "g", "me", "x">>

Float(m) == [cls |-> "float", m |-> m]

One == Float(zeros(Len(Gens)))

Gen(name) == Float(Arr([i \in 1..Len(Gens) |-> IF Gens[i] = name THEN R1 ELSE R0]))

IsFloat(o) == o.cls = "float"

FMul(p, q) == Float(VecAdd(p.m, q.m))

FDiv(p, q) == Float(VecSub(p.m, q.m))

FPow(p, r) == Float(VecScale(p.m, r))

\* physical constants
_c == Gen("c")

_hbar == Gen("hbar")

_e == Gen("e")

_kB == Gen("kB")

_nA == Gen("nA")

_g == Gen("g")

_me == Gen("me")

(***************************************************************************)
(* class Unit                                                              *)
(***************************************************************************)
Unit(vec) == [cls |-> "Unit", vec |-> vec]

IUnit(vec, base) == [cls |-> "IUnit", vec |-> vec, base |-> base]

IsUnit(o) == o.cls \in {"Unit", "IUnit"}

Unit_mul(self, o) == Unit(VecAdd(self.vec, o.vec))

\* the quotient with its operands exchanged
Unit_truediv_swapped(self, o) == Unit(VecSub(o.vec, self.vec))

Unit_truediv(self, o) == Unit(VecSub(self.vec, o.vec))

Unit_pow(self, power) == Unit(VecScale(self.vec, RInt(Trunc(power))))

basic_unit(idx) == Unit(Arr([i \in 1..Dim |-> IF i = idx + 1 THEN R1 ELSE R0]))

(***************************************************************************)
(* class IUnit(Unit); base is the owning UnitSpace.                        *)
(***************************************************************************)
\* equality of the whole objects: names and values count too
UnitSpace_eq_whole(self, other) == self = other

UnitSpace_eq(self, other) == self.mat = other.mat

\* si() projecting with the inverse matrix instead of the basis matrix
IUnit_si_inverse(self) == Unit(VecMat(self.vec, self.base.U))

IUnit_si(self) == Unit(VecMat(self.vec, self.base.mat))

IUnit_mul(self, o) ==
    IF o.cls # "IUnit" THEN Raise("AttributeError")
    ELSE IF ~UnitSpace_eq(self.base, o.base) THEN Raise("ValueError")
    ELSE IUnit(VecAdd(self.vec, o.vec), self.base)

\* the coordinates added to the SI exponents without the projection
IUnit_rmul_raw(self, o) == Unit_mul(o, self)

IUnit_rmul(self, o) == Unit_mul(o, IUnit_si(self))

IUnit_truediv(self, o) ==
    IF o.cls # "IUnit" THEN Raise("AttributeError")
    ELSE IF ~UnitSpace_eq(self.base, o.base) THEN Raise("ValueError")
    ELSE IUnit(VecSub(self.vec, o.vec), self.base)

\* defined by the class, but "/" looks for __rtruediv__ and never calls it
IUnit_rdiv(self, o) == Unit_truediv(o, IUnit_si(self))

(***************************************************************************)
(* The binary operators on units, as Python dispatches them: the reflected *)
(* method of the right operand goes first when its class is a subclass of  *)
(* the left operand's class and defines that method.                       *)
(***************************************************************************)
Mul(p, q) ==
    IF p.cls = "Unit" /\ q.cls = "IUnit" THEN IUnit_rmul(q, p)
    ELSE IF p.cls = "Unit" THEN Unit_mul(p, q)
    ELSE IUnit_mul(p, q)

Div(p, q) ==
    IF p.cls = "Unit" THEN Unit_truediv(p, q)
    ELSE IUnit_truediv(p, q)

Pow(p, power) == Unit_pow(p, power)

(***************************************************************************)
(* class Constant.  The value of a Constant is whatever object it was      *)
(* built with: the arithmetic on values follows Python's dispatch too.     *)
(***************************************************************************)
Constant(name, unit, value) ==
    [cls |-> "Constant", name |-> name, unit |-> unit, value |-> value]

RECURSIVE Constant_mul(_, _)
RECURSIVE Constant_truediv(_, _)
RECURSIVE Constant_pow(_, _)

\* p * q on values: float * float, or Constant.__mul__; a float on the left
\* of a Constant finds no __rmul__
ValMul(p, q) ==
    IF IsFloat(p) /\ IsFloat(q) THEN FMul(p, q)
    ELSE IF p.cls = "Constant" THEN Constant_mul(p, q)
    ELSE Raise("TypeError")

ValDiv(p, q) ==
    IF IsFloat(p) /\ IsFloat(q) THEN FDiv(p, q)
    ELSE IF p.cls = "Constant" THEN Constant_truediv(p, q)
    ELSE Raise("TypeError")

ValPow(p, power) ==
    IF IsFloat(p) THEN FPow(p, power) ELSE Constant_pow(p, power)

Constant_mul(self, o) ==
    IF o.cls # "Constant" THEN Raise("AttributeError")
    ELSE Let(Mul(self.unit, o.unit), LAMBDA un :
             IF IsExc(un) THEN un
             ELSE Let(ValMul(self.value, o.value), LAMBDA va :
                      IF IsExc(va) THEN va ELSE Constant("", un, va)))

Constant_truediv(self, o) ==
    IF o.cls # "Constant" THEN Raise("AttributeError")
    ELSE Let(Div(self.unit, o.unit), LAMBDA un :
             IF IsExc(un) THEN un
             ELSE Let(ValDiv(self.value, o.value), LAMBDA va :
                      IF IsExc(va) THEN va ELSE Constant("", un, va)))

Constant_pow(self, power) ==
    Let(Pow(self.unit, power), LAMBDA un :
    Let(ValPow(self.value, power), LAMBDA va :
        IF IsExc(va) THEN va ELSE Constant("", un, va)))

(***************************************************************************)
(* class UnitSpace                                                         *)
(***************************************************************************)
\* omitted = np.all(mat == 0, axis=0)
Omitted(mat, nn) == Arr([j \in 1..nn |-> \A i \in 1..Len(mat) : mat[i][j] = R0])

\* np.sum(omitted)
CountOmitted(omitted) == Cardinality({j \in 1..Len(omitted) : omitted[j]})

\* the loop over i with its counter cnt: the rows of mat, in order, at the
\* places of the dimensions that are not omitted, over np.eye(n)
FillRows(mat, omitted, nn) ==
    Arr([i \in 1..nn |->
            IF omitted[i] THEN eye(nn)[i]
            ELSE mat[Cardinality({j \in 1..(i - 1) : ~omitted[j]}) + 1]])

\* the check that only rejects too few unused dimensions
Mismatch_few(omitted, m, nn) == CountOmitted(omitted) < nn - m

\* too many or few constants to form a space
Mismatch(omitted, m, nn) == CountOmitted(omitted) # nn - m

UnitSpace_init(constants) ==
    IF Len(constants) = 0 THEN Raise("ValueError")
    ELSE
    Let(Arr([i \in 1..Len(constants) |-> constants[i].unit.vec]), LAMBDA mat :
    LET m == Len(mat)
        nn == Len(mat[1])
    IN
    Let(Omitted(mat, nn), LAMBDA omitted :
        IF m # nn /\ Mismatch(omitted, m, nn) THEN Raise("ValueError")
        ELSE
        Let(IF m = nn THEN mat ELSE FillRows(mat, omitted, nn), LAMBDA smat :
        Let(inv(smat), LAMBDA si :
            IF ~si.ok THEN Raise("LinAlgError")
            ELSE [cls |-> "UnitSpace",
                  mat |-> smat,
                  U |-> si.m,
                  dic |-> Arr([i \in 1..Len(constants) |-> constants[i].name]),
                  ccs |-> Arr([i \in 1..Len(constants) |-> constants[i].value])]))))

unit_convert(self, si_unit) == IUnit(VecMat(si_unit.vec, self.U), self)

\* np.prod: f[1] * ... * f[k]
FProd(f, k) ==
    LET acc[i \in 0..k] == IF i = 0 THEN One ELSE FMul(acc[i - 1], f[i])
    IN  acc[k]

\* the values paired with the coordinates in reverse order
ArrPow_reversed(ccs, vec) ==
    IF Len(ccs) = Len(vec)
    THEN [ok |-> TRUE,
          arr |-> Arr([i \in 1..Len(vec) |-> FPow(ccs[Len(ccs) + 1 - i], vec[i])])]
    ELSE IF Len(ccs) = 1
    THEN [ok |-> TRUE, arr |-> Arr([i \in 1..Len(vec) |-> FPow(ccs[1], vec[i])])]
    ELSE [ok |-> FALSE, arr |-> << >>]

\* self.ccs ** vec, with numpy's broadcasting of the shapes (N,) and (6,)
ArrPow(ccs, vec) ==
    IF Len(ccs) = Len(vec)
    THEN [ok |-> TRUE, arr |-> Arr([i \in 1..Len(vec) |-> FPow(ccs[i], vec[i])])]
    ELSE IF Len(ccs) = 1
    THEN [ok |-> TRUE, arr |-> Arr([i \in 1..Len(vec) |-> FPow(ccs[1], vec[i])])]
    ELSE [ok |-> FALSE, arr |-> << >>]

value_convert(self, co) ==
    IF co.cls # "Constant" THEN Raise("AttributeError")
    ELSE
    Let(unit_convert(self, co.unit), LAMBDA new_unit :
    Let(ArrPow(self.ccs, new_unit.vec), LAMBDA pw :
        IF ~pw.ok THEN Raise("ValueError")
        ELSE
        Let(FProd(pw.arr, Len(pw.arr)), LAMBDA convert_constant :
        Let(ValDiv(co.value, convert_constant), LAMBDA new_val :
            IF IsExc(new_val) THEN new_val
            ELSE Constant(co.name, new_unit, new_val)))))

factor(self, si_unit) ==
    Let(value_convert(self, Constant("", si_unit, One)), LAMBDA r :
        IF IsExc(r) THEN r
        ELSE Constant(r.name, r.unit, ValPow(r.value, RInt(-1))))

unit_to(self, origin, target) == unit_convert(self, Div(target, origin))

value_to(self, origin, target) ==
    IF origin.cls # "Constant" THEN Raise("AttributeError")
    ELSE
    Let(Div(target, origin.unit), LAMBDA factor_unit :
    Let(factor(self, factor_unit), LAMBDA f :
        IF IsExc(f) THEN f ELSE Constant_mul(origin, f)))

(***************************************************************************)
(* The catalogue: basic units, induced units, constants, unit spaces.      *)
(***************************************************************************)
T == basic_unit(0)

L == basic_unit(1)

M == basic_unit(2)

I == basic_unit(3)

K == basic_unit(4)

N == basic_unit(5)

Speed == Div(L, T)

Frequency == Pow(T, RInt(-1))

Hamilton == Mul(M, Pow(Speed, RInt(2)))

Action == Mul(Hamilton, T)

Area == Pow(L, RInt(2))

Volume == Pow(L, RInt(3))

Dense == Pow(Volume, RInt(-1))

Momentum == Mul(M, Speed)

Force == Div(Momentum, T)

Gravity == Mul(Mul(Pow(L, RInt(3)), Pow(M, RInt(-1))), Pow(T, RInt(-2)))

Charge == Div(Div(Div(I, Speed), Area), Dense)

Upotential == Div(Hamilton, I)

Efield == Div(Upotential, L)

Dfield == Div(Div(Hamilton, Efield), Volume)

Bfield == Div(Div(Force, I), L)

Mfield == Div(Div(Hamilton, Bfield), Volume)

Temp == K

Entropy == Div(Hamilton, Temp)

Boltzmann == Div(Entropy, Temp)

Pressure == Div(Hamilton, Volume)

ChemicalPotential == Div(Hamilton, Dense)

HeatCapacity == Boltzmann

NA == Pow(N, RInt(-1))

c_ == Constant("c", Speed, _c)

hbar_ == Constant("hbar", Action, _hbar)

G_ == Constant("G", Gravity, _g)

e_ == Constant("e", Charge, _e)

kB_ == Constant("kB", Boltzmann, _kB)

nA_ == Constant("NA", NA, _nA)

me_ == Constant("me", M, _me)

PlanckUnit == UnitSpace_init(<<c_, hbar_, G_, e_, kB_, nA_>>)

NaturalM == UnitSpace_init(<<Constant("M", M, One), c_, hbar_, e_, kB_, nA_>>)

NaturalL == UnitSpace_init(<<Constant("L", L, One), c_, hbar_, e_, kB_, nA_>>)

BaseUnits == {T, L, M, I, K, N}

DerivedUnits ==
    {Speed, Frequency, Hamilton, Action, Area, Volume, Dense, Momentum, Force,
     Gravity, Charge, Upotential, Efield, Dfield, Bfield, Mfield, Temp,
     Entropy, Boltzmann, Pressure, ChemicalPotential, HeatCapacity, NA}

CatalogueUnits == BaseUnits \cup DerivedUnits

CatalogueConstants == {c_, hbar_, G_, e_, kB_, nA_, me_}

(***************************************************************************)
(* class Energy and its inverse constructors                               *)
(***************************************************************************)
Energy(si) == [cls |-> "Energy", si |-> Constant("", Hamilton, si)]

Energy_ev(self) == ValDiv(self.si.value, _e)

Energy_k(self) == value_convert(NaturalL, self.si)

\* 1 / value: an int on the left of a Constant finds no __rtruediv__
Recip(o) == IF IsFloat(o) THEN FDiv(One, o) ELSE Raise("TypeError")

Energy_wavelength(self) ==
    Let(Energy_k(self), LAMBDA kk : IF IsExc(kk) THEN kk ELSE Recip(kk.value))

Energy_freq(self) == value_to(NaturalM, self.si, Frequency)

Energy_mass(self) == value_to(NaturalM, self.si, M)

energy_from_ev(ev) ==
    Let(ValMul(ev, _e), LAMBDA j : IF IsExc(j) THEN j ELSE Energy(j))

energy_from_wavelength(lamda) ==
    Let(Recip(lamda), LAMBDA r :
        IF IsExc(r) THEN r
        ELSE Let(value_to(NaturalL, Constant("", Pow(L, RInt(-1)), r), Hamilton),
                 LAMBDA j : IF IsExc(j) THEN j ELSE Energy(j.value)))

energy_from_freq(freq) ==
    Let(value_to(NaturalM, Constant("", Frequency, freq), Hamilton),
        LAMBDA j : IF IsExc(j) THEN j ELSE Energy(j.value))

energy_from_mass(mass) ==
    Let(value_to(NaturalM, Constant("", M, mass), Hamilton),
        LAMBDA j : IF IsExc(j) THEN j ELSE Energy(j.value))

(***************************************************************************)
(* State.  u, v, c, d, n, x and ks hold the arguments of the calls; sp     *)
(* holds the UnitSpace objects (the three of the module first); a and b    *)
(* hold IUnits; en holds an Energy; op names the last call and res holds   *)
(* what it returned or raised.  A call of the client leaves in u, v and c  *)
(* its own arguments only.                                                 *)
(***************************************************************************)
Call(name, of) == [name |-> name, of |-> of]

Catalogue == <<PlanckUnit, NaturalM, NaturalL>>

\* the powers tried: the halves between -MaxPow and MaxPow
MaxPow == 2

Powers == {Rat(h, 2) : h \in (-2 * MaxPow)..(2 * MaxPow)}

(***************************************************************************)
(* The algebra of Unit and Constant.                                       *)
(***************************************************************************)
InitAlgebra ==
    /\ n \in Powers
    /\ \/ /\ u \in CatalogueUnits
          /\ v \in CatalogueUnits
          /\ c = c_
          /\ d = hbar_
       \/ /\ u = T
          /\ v = L
          /\ c \in CatalogueConstants
          /\ d \in CatalogueConstants
    /\ ks = << >>
    /\ sp = Catalogue
    /\ a = None
    /\ b = None
    /\ x = One
    /\ en = None
    /\ op = Call("init", "")
    /\ res = None

UnitMul ==
    /\ res' = Mul(u, v)
    /\ op' = Call("Unit.__mul__", "")
    /\ UNCHANGED <<u, v, n, c, d, ks, sp, a, b, x, en>>

UnitTrueDiv ==
    /\ res' = Div(u, v)
    /\ op' = Call("Unit.__truediv__", "")
    /\ UNCHANGED <<u, v, n, c, d, ks, sp, a, b, x, en>>

UnitPow ==
    /\ res' = Pow(u, n)
    /\ op' = Call("Unit.__pow__", "")
    /\ UNCHANGED <<u, v, n, c, d, ks, sp, a, b, x, en>>

ConstantMul ==
    /\ res' = Constant_mul(c, d)
    /\ op' = Call("Constant.__mul__", "")
    /\ UNCHANGED <<u, v, n, c, d, ks, sp, a, b, x, en>>

ConstantTrueDiv ==
    /\ res' = Constant_truediv(c, d)
    /\ op' = Call("Constant.__truediv__", "")
    /\ UNCHANGED <<u, v, n, c, d, ks, sp, a, b, x, en>>

ConstantPow ==
    /\ res' = Constant_pow(c, n)
    /\ op' = Call("Constant.__pow__", "")
    /\ UNCHANGED <<u, v, n, c, d, ks, sp, a, b, x, en>>

NextAlgebra ==
    \/ UnitMul
    \/ UnitTrueDiv
    \/ UnitPow
    \/ ConstantMul
    \/ ConstantTrueDiv
    \/ ConstantPow

SpecAlgebra == InitAlgebra /\ [][NextAlgebra]_vars

(***************************************************************************)
(* A client that builds a UnitSpace from a list of constants and converts  *)
(* units with it: S = UnitSpace(ks), then S.unit_convert(u),               *)
(* S.unit_convert(u).si() or S.unit_to(u, v).  The lists are the sub-lists *)
(* of Master.                                                              *)
(***************************************************************************)
Master ==
    <<Constant("M", M, One), Constant("L", L, One), c_, hbar_, G_, e_, kB_,
      nA_, me_, Constant("w", Frequency, One)>>

SubList(S) ==
    LET f[k \in 0..Len(Master)] ==
            IF k = 0 THEN << >>
            ELSE IF k \in S THEN Append(f[k - 1], Master[k]) ELSE f[k - 1]
    IN  f[Len(Master)]

Lists == {SubList(S) : S \in SUBSET (1..Len(Master))}

\* the UnitSpace of the client: the one built last
S == sp[Len(sp)]

\* the client has just built S, and makes one call on it
Built == op.name = "UnitSpace" /\ Len(sp) > Len(Catalogue)

InitSpace ==
    /\ ks \in Lists
    /\ sp = Catalogue
    /\ u = None
    /\ v = None
    /\ c = None
    /\ d = None
    /\ n = R1
    /\ a = None
    /\ b = None
    /\ x = One
    /\ en = None
    /\ op = Call("init", "")
    /\ res = None

NewUnitSpace ==
    /\ op.name = "init"
    /\ \E r \in {UnitSpace_init(ks)} :
          /\ res' = r
          /\ sp' = IF IsExc(r) THEN sp ELSE Append(sp, r)
    /\ op' = Call("UnitSpace", "")
    /\ UNCHANGED <<u, v, n, c, d, ks, a, b, x, en>>

UnitConvert ==
    /\ Built
    /\ \E uu \in CatalogueUnits :
          /\ u' = uu
          /\ res' = unit_convert(S, uu)
    /\ v' = None
    /\ c' = None
    /\ op' = Call("unit_convert", "")
    /\ UNCHANGED <<n, d, ks, sp, a, b, x, en>>

\* S.unit_convert(u).si()
Si ==
    /\ op.name = "unit_convert"
    /\ res' = IUnit_si(res)
    /\ op' = Call("si", "unit_convert")
    /\ UNCHANGED <<u, v, n, c, d, ks, sp, a, b, x, en>>

UnitTo ==
    /\ Built
    /\ \E origin \in CatalogueUnits, target \in BaseUnits :
          /\ u' = origin
          /\ v' = target
          /\ res' = unit_to(S, origin, target)
    /\ c' = None
    /\ op' = Call("unit_to", "")
    /\ UNCHANGED <<n, d, ks, sp, a, b, x, en>>

NextSpace ==
    \/ NewUnitSpace
    \/ UnitConvert
    \/ Si
    \/ UnitTo

SpecSpace == InitSpace /\ [][NextSpace]_vars

(***************************************************************************)
(* A client that builds a UnitSpace and converts values with it:           *)
(* S = UnitSpace(ks), then S.value_convert(c), S.factor(u) or              *)
(* S.value_to(c, v), for a Constant c it holds from the start.             *)
(***************************************************************************)
ConstantInputs == {c_, e_, me_, Constant("E", Hamilton, Gen("x"))}

Init ==
    /\ ks \in Lists
    /\ c \in ConstantInputs
    /\ sp = Catalogue
    /\ u = None
    /\ v = None
    /\ d = None
    /\ n = R1
    /\ a = None
    /\ b = None
    /\ x = One
    /\ en = None
    /\ op = Call("init", "")
    /\ res = None

ValueConvert ==
    /\ Built
    /\ res' = value_convert(S, c)
    /\ op' = Call("value_convert", "")
    /\ UNCHANGED <<u, v, n, c, d, ks, sp, a, b, x, en>>

Factor ==
    /\ Built
    /\ \E uu \in CatalogueUnits :
          /\ u' = uu
          /\ res' = factor(S, uu)
    /\ op' = Call("factor", "")
    /\ UNCHANGED <<v, n, c, d, ks, sp, a, b, x, en>>

ValueTo ==
    /\ Built
    /\ \E target \in CatalogueUnits :
          /\ v' = target
          /\ res' = value_to(S, c, target)
    /\ op' = Call("value_to", "")
    /\ UNCHANGED <<u, n, c, d, ks, sp, a, b, x, en>>

Next ==
    \/ NewUnitSpace
    \/ ValueConvert
    \/ Factor
    \/ ValueTo

Spec == Init /\ [][Next]_vars

(***************************************************************************)
(* A client that converts units into two BasisUnits a and b, of the three  *)
(* unit spaces of the module or of one it built, and combines them with    *)
(* each other (a * b, a / b) and with a plain Unit u on the left (u * b,   *)
(* u / b).                                                                 *)
(***************************************************************************)
\* the matrix of NaturalM under other names and values; three constants
BasisLists ==
    {<<me_, c_, hbar_, e_, kB_, nA_>>,
     <<hbar_, Constant("m", M, One), Constant("w", Frequency, One)>>}

BasisInputs == {T, L, M, Charge}

InitBasis ==
    /\ ks \in BasisLists
    /\ u \in {L, Hamilton}
    /\ sp = Catalogue
    /\ v = None
    /\ c = None
    /\ d = None
    /\ n = R1
    /\ a = None
    /\ b = None
    /\ x = One
    /\ en = None
    /\ op = Call("init", "")
    /\ res = None

ConvertA ==
    /\ a = None
    /\ \E s \in DOMAIN sp, uu \in BasisInputs :
          /\ a' = unit_convert(sp[s], uu)
          /\ res' = unit_convert(sp[s], uu)
    /\ op' = Call("unit_convert", "")
    /\ UNCHANGED <<u, v, n, c, d, ks, sp, b, x, en>>

ConvertB ==
    /\ b = None
    /\ \E s \in DOMAIN sp, uu \in BasisInputs :
          /\ b' = unit_convert(sp[s], uu)
          /\ res' = unit_convert(sp[s], uu)
    /\ op' = Call("unit_convert", "")
    /\ UNCHANGED <<u, v, n, c, d, ks, sp, a, x, en>>

IUnitMul ==
    /\ a # None
    /\ b # None
    /\ res' = Mul(a, b)
    /\ op' = Call("IUnit * IUnit", "")
    /\ UNCHANGED <<u, v, n, c, d, ks, sp, a, b, x, en>>

IUnitTrueDiv ==
    /\ a # None
    /\ b # None
    /\ res' = Div(a, b)
    /\ op' = Call("IUnit / IUnit", "")
    /\ UNCHANGED <<u, v, n, c, d, ks, sp, a, b, x, en>>

MixedMul ==
    /\ b # None
    /\ res' = Mul(u, b)
    /\ op' = Call("Unit * IUnit", "")
    /\ UNCHANGED <<u, v, n, c, d, ks, sp, a, b, x, en>>

MixedTrueDiv ==
    /\ b # None
    /\ res' = Div(u, b)
    /\ op' = Call("Unit / IUnit", "")
    /\ UNCHANGED <<u, v, n, c, d, ks, sp, a, b, x, en>>

NextBasis ==
    \/ NewUnitSpace
    \/ ConvertA
    \/ ConvertB
    \/ IUnitMul
    \/ IUnitTrueDiv
    \/ MixedMul
    \/ MixedTrueDiv

SpecBasis == InitBasis /\ [][NextBasis]_vars

(***************************************************************************)
(* A client of the Energy facade: en = Energy(x), one of its conversions,  *)
(* and an inverse constructor applied to what the conversion returned or   *)
(* to the value attribute of the Constant it returned.                     *)
(***************************************************************************)
EnergyInputs ==
    {Gen("x"), One, _e, _hbar, _kB, FMul(_me, FPow(_c, RInt(2))),
     FMul(_hbar, _c), FPow(Gen("x"), RInt(2))}

Methods == {"ev", "k", "wavelength", "freq", "mass"}

\* the conversions that return a Constant, and the name of its value
ValueOf(m) ==
    IF m = "k" THEN "k.value" ELSE IF m = "freq" THEN "freq.value" ELSE "mass.value"

\* what the client passes on: the result of conversion m, or result.value
Passed(r, m) ==
    {[val |-> r, of |-> m]}
        \cup (IF r.cls = "Constant" THEN {[val |-> r.value, of |-> ValueOf(m)]}
              ELSE {})

InitEnergy ==
    /\ x \in EnergyInputs
    /\ en = None
    /\ ks = << >>
    /\ sp = Catalogue
    /\ u = None
    /\ v = None
    /\ c = None
    /\ d = None
    /\ n = R1
    /\ a = None
    /\ b = None
    /\ op = Call("init", "")
    /\ res = None

NewEnergy ==
    /\ en = None
    /\ en' = Energy(x)
    /\ res' = Energy(x)
    /\ op' = Call("Energy", "")
    /\ UNCHANGED <<u, v, n, c, d, ks, sp, a, b, x>>

Ev ==
    /\ en # None
    /\ res' = Energy_ev(en)
    /\ op' = Call("ev", "")
    /\ UNCHANGED <<u, v, n, c, d, ks, sp, a, b, x, en>>

Wavenumber ==
    /\ en # None
    /\ res' = Energy_k(en)
    /\ op' = Call("k", "")
    /\ UNCHANGED <<u, v, n, c, d, ks, sp, a, b, x, en>>

Wavelength ==
    /\ en # None
    /\ res' = Energy_wavelength(en)
    /\ op' = Call("wavelength", "")
    /\ UNCHANGED <<u, v, n, c, d, ks, sp, a, b, x, en>>

Freq ==
    /\ en # None
    /\ res' = Energy_freq(en)
    /\ op' = Call("freq", "")
    /\ UNCHANGED <<u, v, n, c, d, ks, sp, a, b, x, en>>

Mass ==
    /\ en # None
    /\ res' = Energy_mass(en)
    /\ op' = Call("mass", "")
    /\ UNCHANGED <<u, v, n, c, d, ks, sp, a, b, x, en>>

FromEv ==
    /\ op.name \in Methods
    /\ \E p \in Passed(res, op.name) :
          /\ res' = energy_from_ev(p.val)
          /\ op' = Call("energy_from_ev", p.of)
    /\ UNCHANGED <<u, v, n, c, d, ks, sp, a, b, x, en>>

FromWavelength ==
    /\ op.name \in Methods
    /\ \E p \in Passed(res, op.name) :
          /\ res' = energy_from_wavelength(p.val)
          /\ op' = Call("energy_from_wavelength", p.of)
    /\ UNCHANGED <<u, v, n, c, d, ks, sp, a, b, x, en>>

FromFreq ==
    /\ op.name \in Methods
    /\ \E p \in Passed(res, op.name) :
          /\ res' = energy_from_freq(p.val)
          /\ op' = Call("energy_from_freq", p.of)
    /\ UNCHANGED <<u, v, n, c, d, ks, sp, a, b, x, en>>

FromMass ==
    /\ op.name \in Methods
    /\ \E p \in Passed(res, op.name) :
          /\ res' = energy_from_mass(p.val)
          /\ op' = Call("energy_from_mass", p.of)
    /\ UNCHANGED <<u, v, n, c, d, ks, sp, a, b, x, en>>

NextEnergy ==
    \/ NewEnergy
    \/ Ev
    \/ Wavenumber
    \/ Wavelength
    \/ Freq
    \/ Mass
    \/ FromEv
    \/ FromWavelength
    \/ FromFreq
    \/ FromMass

SpecEnergy == InitEnergy /\ [][NextEnergy]_vars

(***************************************************************************)
(* The claims.                                                             *)
(***************************************************************************)
\* the base dimensions with exponent zero in every constant of the list
ZeroColumns(l) == {j \in 1..Dim : \A i \in 1..Len(l) : l[i].unit.vec[j] = R0}

\* sum over the constants of the list of  coordinate * exponent of the unit
UnitOfCoords(xs, l, j) ==
    RSum(Arr([i \in 1..Len(l) |-> RMul(xs[i], l[i].unit.vec[j])]), Len(l))

\* the exponent of generator g in the product of value(k_i) ^ x_i
ValueOfCoords(xs, l, g) ==
    RSum(Arr([i \in 1..Len(l) |-> RMul(xs[i], l[i].value.m[g])]), Len(l))

SameMatrix(p, q) == \A i \in 1..Dim : \A j \in 1..Dim : p.mat[i][j] = q.mat[i][j]

\* C1: for every UnitSpace that constructs and every unit u of the catalogue,
\* S.unit_convert(u).si() is a Unit with the six exponents of u.
C1_SiInvertsUnitConvert ==
    op.name = "si" => res.cls = "Unit" /\ \A i \in 1..Dim : res.vec[i] = u.vec[i]

\* si() has projected a unit with fractional coordinates in a space built
\* from fewer than six constants back to itself
C1_Witness ==
    /\ op.name = "si"
    /\ Len(ks) = 3
    /\ u = Hamilton
    /\ \E i \in 1..Dim : \E j \in 1..Dim : S.U[i][j][2] = 2
    /\ res.vec = Hamilton.vec

\* C2: in a space built from six constants k_1..k_6, value_convert(co) is a
\* Constant named co.name whose unit is the BasisUnit of S with the coordinates
\* x of co.unit (x times the rows of the constants gives co.unit) and whose
\* value is co.value divided by the product of value(k_i) ^ x_i; co is unchanged.
C2_ValueConvert ==
    [][(op'.name = "value_convert" /\ Len(ks') = Dim) =>
          /\ c' = c
          /\ res'.cls = "Constant"
          /\ res'.name = c.name
          /\ res'.unit.cls = "IUnit"
          /\ res'.unit.base = sp'[Len(sp')]
          /\ \A j \in 1..Dim : UnitOfCoords(res'.unit.vec, ks', j) = c.unit.vec[j]
          /\ \A g \in 1..Len(Gens) :
                res'.value.m[g] =
                    RSub(c.value.m[g], ValueOfCoords(res'.unit.vec, ks', g))]_vars

\* an energy of x joules converted to Planck units: x / sqrt(hbar c^5 / G)
C2_Witness ==
    /\ op.name = "value_convert"
    /\ ks = <<c_, hbar_, G_, e_, kB_, nA_>>
    /\ c.name = "E"
    /\ res.cls = "Constant"
    /\ res.value.m = <<<<-5, 2>>, <<-1, 2>>, R0, R0, R0, <<1, 2>>, R0, R1>>

\* C3 (as claimed): once a UnitSpace is constructed, from six constants or
\* from fewer, none of its conversions raises an error.
C3_ConversionsNeverRaise ==
    op.name \in {"unit_convert", "value_convert", "factor", "unit_to", "value_to"}
        => ~IsExc(res)

\* C4: in a space built from six constants, value_to(origin, target) is a
\* Constant whose unit is a plain Unit with the exponents of target and whose
\* value is origin.value times the value of S.factor(target / origin.unit).
C4_ValueTo ==
    (op.name = "value_to" /\ Len(ks) = Dim) =>
        /\ res.cls = "Constant"
        /\ res.unit.cls = "Unit"
        /\ \A i \in 1..Dim : res.unit.vec[i] = v.vec[i]
        /\ res.value = FMul(c.value, factor(S, Unit(VecSub(v.vec, c.unit.vec))).value)

\* an energy of x joules as a mass in the natural units of NaturalM: x / c^2
C4_Witness ==
    /\ op.name = "value_to"
    /\ ks = <<Constant("M", M, One), c_, hbar_, e_, kB_, nA_>>
    /\ c.name = "E"
    /\ v = M
    /\ res.cls = "Constant"
    /\ res.unit = M
    /\ res.value.m = <<<<-2, 1>>, R0, R0, R0, R0, R0, R0, R1>>

\* C5 (as claimed): energy_from_mass applied to the result of Energy(x).mass()
\* completes and yields an Energy whose SI value is x.
C5_MassRoundTrip ==
    (op.name = "energy_from_mass" /\ op.of = "mass") =>
        res.cls = "Energy" /\ res.si.value = x

\* C6: constructing a UnitSpace from N # 6 constants raises ValueError and
\* produces no UnitSpace whenever the number of base dimensions unused by
\* every constant differs from 6 - N.
C6_MismatchRaises ==
    (op.name # "init" /\ Len(ks) # Dim /\ Cardinality(ZeroColumns(ks)) # Dim - Len(ks)) =>
        /\ sp = Catalogue
        /\ op.name = "UnitSpace"
        /\ res = Raise("ValueError")

\* four constants that leave three dimensions unused have been rejected
C6_Witness ==
    /\ op.name = "UnitSpace"
    /\ Len(ks) = 4
    /\ Cardinality(ZeroColumns(ks)) = 3
    /\ res = Raise("ValueError")
    /\ sp = Catalogue

\* C7: a * b and a / b of two BasisUnits give the BasisUnit of a's UnitSpace
\* with the coordinates added (subtracted) exactly when the basis matrices of
\* the two owning spaces are equal entry for entry, and raise ValueError
\* otherwise.
C7_SameBasisOnly ==
    /\ op.name = "IUnit * IUnit" =>
          IF SameMatrix(a.base, b.base)
          THEN /\ res.cls = "IUnit"
               /\ res.base = a.base
               /\ \A i \in 1..Dim : res.vec[i] = RAdd(a.vec[i], b.vec[i])
          ELSE res = Raise("ValueError")
    /\ op.name = "IUnit / IUnit" =>
          IF SameMatrix(a.base, b.base)
          THEN /\ res.cls = "IUnit"
               /\ res.base = a.base
               /\ \A i \in 1..Dim : res.vec[i] = RSub(a.vec[i], b.vec[i])
          ELSE res = Raise("ValueError")

\* two BasisUnits of distinct UnitSpace objects with equal matrices and
\* different constant names have been multiplied
C7_Witness ==
    /\ op.name = "IUnit * IUnit"
    /\ a.base # b.base
    /\ a.base.dic # b.base.dic
    /\ SameMatrix(a.base, b.base)
    /\ res.cls = "IUnit"
    /\ res.base = a.base

\* C8 (as claimed): for every power n, fractional ones included, c ** n is an
\* anonymous Constant with the exponents of c's unit times n and the value of
\* c to the power n.
C8_PowerOfUnitAndValue ==
    op.name = "Constant.__pow__" =>
        /\ res.cls = "Constant"
        /\ res.name = ""
        /\ \A i \in 1..Dim : res.unit.vec[i] = RMul(c.unit.vec[i], n)
        /\ \A g \in 1..Len(Gens) : res.value.m[g] = RMul(c.value.m[g], n)

\* C9: for units a and b and an integer n, a * b, a / b and a ** n are new
\* Units with the exponents a + b, a - b and a * n; a and b are unchanged.
C9_UnitAlgebra ==
    [][/\ u' = u
       /\ v' = v
       /\ op'.name = "Unit.__mul__" =>
             /\ res'.cls = "Unit"
             /\ \A i \in 1..Dim : res'.vec[i] = <<u.vec[i][1] + v.vec[i][1], 1>>
       /\ op'.name = "Unit.__truediv__" =>
             /\ res'.cls = "Unit"
             /\ \A i \in 1..Dim : res'.vec[i] = <<u.vec[i][1] - v.vec[i][1], 1>>
       /\ (op'.name = "Unit.__pow__" /\ IsInteger(n)) =>
             /\ res'.cls = "Unit"
             /\ \A i \in 1..Dim : res'.vec[i] = <<u.vec[i][1] * n[1], 1>>]_vars

\* the energy unit divided by the unit of charge
C9_Witness ==
    /\ op.name = "Unit.__truediv__"
    /\ u = Hamilton
    /\ v = Charge
    /\ res = Unit(<<<<-3, 1>>, <<2, 1>>, R1, <<-1, 1>>, R0, R0>>)

\* C10 (as claimed): with a plain Unit u on the left and a BasisUnit b on the
\* right, u * b has the exponents u + b.si() and u / b has u - b.si().
C10_MixedProjectsFirst ==
    /\ op.name = "Unit * IUnit" =>
          res.cls = "Unit" /\ res.vec = VecAdd(u.vec, IUnit_si(b).vec)
    /\ op.name = "Unit / IUnit" =>
          res.cls = "Unit" /\ res.vec = VecSub(u.vec, IUnit_si(b).vec)

====
